---- MODULE Spec2Model ----
(***************************************************************************)
(* Model of the project orchestration engine of MySiteGen-Agent            *)
(* (src/App.tsx, src/services/geminiService.ts, src/unnamed/part_000).     *)
(*                                                                         *)
(* The handlers of App.tsx are async functions: each runs to completion    *)
(* between two awaits, so every action below is one synchronous segment    *)
(* of a handler (from its invocation, or from the return of the call it    *)
(* awaited, to its next await or to its end).  The calls in flight are     *)
(* the set "pending"; the environment resolves a pending call by letting   *)
(* it return or throw.                                                     *)
(*                                                                         *)
(* Abstractions: a page's title and description are left out (no claim     *)
(* reads them); markup is a record that names the request that produced    *)
(* it; ids drawn from Math.random are fresh naturals; the 1500 ms timer    *)
(* awaited before each page generation call of Build is part of that       *)
(* call's latency.  At most one invocation of each handler is live at a    *)
(* time.                                                                   *)
(***************************************************************************)
EXTENDS Integers, Sequences, FiniteSets, TLC

VARIABLES
    status,              \* ProjectState.status
    identity,            \* ProjectState.identity ("none" when undefined)
    hubs,                \* ProjectState.hubs
    articles,            \* ProjectState.articles
    githubConfig,        \* ProjectState.githubConfig
    publishStatus,       \* useState publishStatus
    isGeneratingProject, \* useState isGeneratingProject
    abortRef,            \* abortControllerRef.current (NoToken when null)
    aborted,             \* the AbortControllers whose abort() has been called
    pending,             \* external calls in flight
    bld,                 \* locals of the live handleInitialBuild invocation
    imp,                 \* locals of the live handleImport invocation
    tun,                 \* locals of the live handleTuneDesign invocation
    pub,                 \* locals of the live handleCreateAndPublish invocation
    addp,                \* locals of the live handleAddProject invocation
    runs,                \* number of handler invocations so far
    tree,                \* the remote repository's file tree
    repoBranch,          \* the remote repository's default_branch ("" when absent)
    strategy,            \* the section slugs the generation service proposes
    last,                \* how the handler that ended in the last step ended (Quiet otherwise)
    rt,                  \* the retryWithBackoff call under study (geminiService.ts)
    app                  \* the App component: mounted or not, and the document it loaded from

vars == <<status, identity, hubs, articles, githubConfig, publishStatus,
          isGeneratingProject, abortRef, aborted, pending, bld, imp, tun, pub,
          addp, runs, tree, repoBranch, strategy, last, rt, app>>

projectVars == <<identity, hubs, articles, githubConfig>>
uiVars == <<publishStatus, isGeneratingProject>>
\* what no handler step writes: the remote responses, the retry call studied on its own,
\* and the mounting of the component
envVars == <<tree, repoBranch, strategy, rt, app>>
handlerVars == <<status, identity, hubs, articles, githubConfig, publishStatus,
                 isGeneratingProject, abortRef, aborted, pending, bld, imp, tun, pub,
                 addp, runs, tree, repoBranch, strategy, last, app>>

(***************************************************************************)
(* Bounds                                                                  *)
(***************************************************************************)
MaxRuns == 2
MaxSections == 2
MaxTree == 3
MaxAttempts == 5

(***************************************************************************)
(* Data                                                                    *)
(***************************************************************************)
HomeId == 0
NoToken == 0
NoIdentity == "none"
NoHtml == [kind |-> "none"]

StatusValues ==
    {"idle", "importing", "analyzing_site", "building_identity",
     "generating_strategy", "generating_hubs", "ready", "creating_repo",
     "pushing_files", "enabling_pages", "tuning_design"}

isBusy == status # "idle" /\ status # "ready"

DefaultConfig == [token |-> "", repo |-> "", branch |-> "main", path |-> "docs"]

HomeHub(html) == [id |-> HomeId, slug |-> "index", html |-> html]

Slugs(hs) == [i \in DOMAIN hs |-> hs[i].slug]
HubIds(hs) == {hs[i].id : i \in DOMAIN hs}
ArticleIds(as) == {as[i].id : i \in DOMAIN as} \cup {as[i].hubId : i \in DOMAIN as}

\* the closure's "state": the ProjectState of the render the handler was created in
Snapshot == [identity |-> identity, hubs |-> hubs, articles |-> articles,
             githubConfig |-> githubConfig]
NoSnapshot == [identity |-> NoIdentity, hubs |-> <<>>, articles |-> <<>>,
               githubConfig |-> DefaultConfig]

SnapIds(s) == HubIds(s.hubs) \cup ArticleIds(s.articles)

\* every id some live object still holds
UsedIds ==
    HubIds(hubs) \cup ArticleIds(articles)
    \cup HubIds(bld.hubs) \cup HubIds(imp.hubs) \cup ArticleIds(imp.articles)
    \cup ArticleIds(addp.updatedArticles)
    \cup SnapIds(bld.cap) \cup SnapIds(imp.cap) \cup SnapIds(tun.cap) \cup SnapIds(pub.cap) \cup SnapIds(addp.cap)

\* Math.random().toString(36).substr(2, 9): an id no live object holds
MinFree(used) ==
    CHOOSE k \in 1..(Cardinality(used) + 1) :
        k \notin used /\ \A j \in 1..(k - 1) : j \in used

RECURSIVE FreshIds(_, _)
FreshIds(used, n) ==
    IF n = 0 THEN <<>>
    ELSE LET f == MinFree(used) IN <<f>> \o FreshIds(used \cup {f}, n - 1)

RECURSIVE SeqsUpTo(_, _)
SeqsUpTo(S, n) ==
    IF n = 0 THEN {<<>>}
    ELSE LET shorter == SeqsUpTo(S, n - 1)
         IN shorter \cup {Append(s, x) : s \in {t \in shorter : Len(t) = n - 1}, x \in S}

Call(wf, op, i, sig, links, html, ref) ==
    [wf |-> wf, op |-> op, i |-> i, sig |-> sig, links |-> links, html |-> html, ref |-> ref]

Running(wf) == \E c \in pending : c.wf = wf

Label(wf, ev, at) == [wf |-> wf, ev |-> ev, at |-> at]
\* the label of a step that ends no handler
Quiet == Label("", "", "")

\* updateState({ status: s })
SetStatus(s) == status' = s

(***************************************************************************)
(* Generation service (responses as the handlers see them)                 *)
(***************************************************************************)
StrategySlugs == {"about", "works", "index"}
\* generateStrategyAgent's parsed data.hubs: any list of section stubs
Strategies == SeqsUpTo(StrategySlugs, MaxSections)

\* generateHtmlAgent(page, identity, siteType, allHubs, links, isRoot, referenceHtml)
GenHtml(c) == [kind |-> "page", page |-> c.op, i |-> c.i, links |-> c.links, ref |-> c.ref]

(***************************************************************************)
(* handleInitialBuild                                                      *)
(***************************************************************************)
BuildIdle == [cap |-> NoSnapshot, identity |-> NoIdentity, hubs |-> <<>>, updatedHubs |-> <<>>]

\* the stubs of a strategy response, each given a fresh id
StrategyHubs(slugs) ==
    LET ids == FreshIds(UsedIds, Len(slugs))
    IN [i \in DOMAIN slugs |-> [id |-> ids[i], slug |-> slugs[i], html |-> NoHtml]]

\* mutant: the section pages requested all at once (Promise.all over the stubs)
SectionCallsAtOnce(hs, i) ==
    {Call("build", "section", j, NoToken, <<"../index.html">>, NoHtml, NoHtml) : j \in i..Len(hs)}

\* the calls iteration i of the section loop dispatches
SectionCalls(hs, i) ==
    {Call("build", "section", i, NoToken, <<"../index.html">>, NoHtml, NoHtml)}

\* the links handed to the home page call
HomeLinks(updatedHubs) == Slugs(updatedHubs)

HomeCall(updatedHubs) ==
    Call("build", "home", 0, NoToken, HomeLinks(updatedHubs), NoHtml, NoHtml)

\* what the loop at lines 337-350 dispatches once i-1 section pages are done
BuildNextCalls(hs, updatedHubs) ==
    IF Len(updatedHubs) < Len(hs) THEN SectionCalls(hs, Len(updatedHubs) + 1)
    ELSE {HomeCall(updatedHubs)}

\* mutant: the home page appended after the sections
BuildCommitHomeLast(homeHtml, updatedHubs) == updatedHubs \o <<HomeHub(homeHtml)>>

\* the state update that ends a successful Build
BuildCommit(homeHtml, updatedHubs) == <<HomeHub(homeHtml)>> \o updatedHubs

\* the hubs written together with status generating_hubs
StrategyCommit(hs) == hs

StartBuild ==
    /\ runs < MaxRuns
    /\ ~Running("build")
    /\ ~isBusy
    /\ runs' = runs + 1
    /\ SetStatus("building_identity")
    /\ bld' = [BuildIdle EXCEPT !.cap = Snapshot]
    /\ pending' = pending \cup {Call("build", "identity", 0, NoToken, <<>>, NoHtml, NoHtml)}
    /\ last' = Quiet
    /\ UNCHANGED <<projectVars, uiVars, abortRef, aborted, imp, tun, pub, addp, envVars>>

BuildIdentityOk ==
    \E c \in pending :
        /\ c.wf = "build" /\ c.op = "identity"
        /\ identity' = "built"
        /\ SetStatus("generating_strategy")
        /\ bld' = [bld EXCEPT !.identity = "built"]
        /\ pending' = (pending \ {c})
                        \cup {Call("build", "strategy", 0, NoToken, <<>>, NoHtml, NoHtml)}
        /\ last' = Quiet
        /\ UNCHANGED <<hubs, articles, githubConfig, uiVars, abortRef, aborted,
                       imp, tun, pub, addp, runs, envVars>>

BuildStrategyOk ==
    \E c \in pending :
        /\ c.wf = "build" /\ c.op = "strategy"
        /\ LET hs == StrategyHubs(strategy)
           IN /\ hubs' = StrategyCommit(hs)
              /\ bld' = [bld EXCEPT !.hubs = hs, !.updatedHubs = <<>>]
              /\ pending' = (pending \ {c}) \cup BuildNextCalls(hs, <<>>)
        /\ SetStatus("generating_hubs")
        /\ last' = Quiet
        /\ UNCHANGED <<identity, articles, githubConfig, uiVars, abortRef, aborted,
                       imp, tun, pub, addp, runs, envVars>>

BuildSectionOk ==
    \E c \in pending :
        /\ c.wf = "build" /\ c.op = "section"
        /\ LET done == Append(bld.updatedHubs, [bld.hubs[c.i] EXCEPT !.html = GenHtml(c)])
           IN /\ bld' = [bld EXCEPT !.updatedHubs = done]
              /\ pending' = (pending \ {c}) \cup BuildNextCalls(bld.hubs, done)
        /\ last' = Quiet
        /\ UNCHANGED <<status, projectVars, uiVars, abortRef, aborted,
                       imp, tun, pub, addp, runs, envVars>>

BuildHomeOk ==
    \E c \in pending :
        /\ c.wf = "build" /\ c.op = "home"
        /\ hubs' = BuildCommit(GenHtml(c), bld.updatedHubs)
        /\ SetStatus("ready")
        /\ bld' = BuildIdle
        /\ pending' = {d \in pending : d.wf # "build"}
        /\ last' = Label("build", "done", c.op)
        /\ UNCHANGED <<identity, articles, githubConfig, uiVars, abortRef, aborted,
                       imp, tun, pub, addp, runs, envVars>>

\* the awaited call throws: catch (lines 356-358)
BuildFail ==
    \E c \in pending :
        /\ c.wf = "build"
        /\ SetStatus("idle")
        /\ bld' = BuildIdle
        /\ pending' = {d \in pending : d.wf # "build"}
        /\ last' = Label("build", "fail", c.op)
        /\ UNCHANGED <<projectVars, uiVars, abortRef, aborted,
                       imp, tun, pub, addp, runs, envVars>>

(***************************************************************************)
(* Repository tree: a path is the sequence of its "/"-separated segments   *)
(***************************************************************************)
HtmlFiles == {"index.html", "consulting.html", "about.html", "notes.html.bak.html"}

\* name.replace('.html', ''): a string pattern, so the first occurrence is removed
StripHtml(name) ==
    CASE name = "index.html" -> "index"
      [] name = "consulting.html" -> "consulting"
      [] name = "about.html" -> "about"
      [] name = "notes.html.bak.html" -> "notes.bak.html"
      [] OTHER -> name

Node(path, type) == [path |-> path, type |-> type]
Blob(path) == Node(path, "blob")

\* node.path.endsWith('.html')
EndsWithHtml(path) == Len(path) > 0 /\ path[Len(path)] \in HtmlFiles

possibleIndexPaths ==
    << <<"index.html">>, <<"docs", "index.html">>, <<"public", "index.html">>,
       <<"site", "index.html">> >>

IsIndexCandidate(path) == \E k \in DOMAIN possibleIndexPaths : possibleIndexPaths[k] = path

\* mutant: the first entry of the tree taken as the index when no candidate is found
FindIndexNodeOrFirst(t) ==
    IF \E j \in DOMAIN t : IsIndexCandidate(t[j].path)
    THEN CHOOSE j \in DOMAIN t :
            /\ IsIndexCandidate(t[j].path)
            /\ \A k \in 1..(j - 1) : ~IsIndexCandidate(t[k].path)
    ELSE IF Len(t) > 0 THEN 1 ELSE 0

\* tree.find(node => possibleIndexPaths.includes(node.path)): position, 0 when undefined
FindIndexNode(t) ==
    IF \E j \in DOMAIN t : IsIndexCandidate(t[j].path)
    THEN CHOOSE j \in DOMAIN t :
            /\ IsIndexCandidate(t[j].path)
            /\ \A k \in 1..(j - 1) : ~IsIndexCandidate(t[k].path)
    ELSE 0

\* indexNode.path.includes('/') ? indexNode.path.split('/')[0] : ''
RootDirOf(path) == IF Len(path) > 1 THEN path[1] ELSE ""

\* a string has the prefix as its first characters
StartsWith(str, prefix) ==
    str = prefix \/ (str = "docs2" /\ prefix = "docs")

\* mutant: startsWith(rootDir) without the "/", so that docs2/ passes for docs
ConsideredByStringPrefix(node, rootDir) ==
    /\ node.type = "blob"
    /\ EndsWithHtml(node.path)
    /\ (rootDir = "" \/ (Len(node.path) >= 2 /\ StartsWith(node.path[1], rootDir)))

\* the filters both loops apply (lines 226-227, 254-255)
Considered(node, rootDir) ==
    /\ node.type = "blob"
    /\ EndsWithHtml(node.path)
    /\ (rootDir = "" \/ (Len(node.path) >= 2 /\ node.path[1] = rootDir))

\* relativePath.split('/')
Parts(node, rootDir) == IF rootDir # "" THEN Tail(node.path) ELSE node.path

IsSectionNode(node, rootDir) ==
    /\ Considered(node, rootDir)
    /\ Parts(node, rootDir) # <<"index.html">>
    /\ Len(Parts(node, rootDir)) = 2
    /\ Parts(node, rootDir)[2] = "index.html"

\* hubs.find(h => h.slug === slug): position, 0 when undefined
FindHubBySlug(hs, slug) ==
    IF \E j \in DOMAIN hs : hs[j].slug = slug
    THEN CHOOSE j \in DOMAIN hs : hs[j].slug = slug /\ \A k \in 1..(j - 1) : hs[k].slug # slug
    ELSE 0

IsArticleNode(node, rootDir, hs) ==
    /\ Considered(node, rootDir)
    /\ Len(Parts(node, rootDir)) = 2
    /\ Parts(node, rootDir)[2] # "index.html"
    /\ FindHubBySlug(hs, Parts(node, rootDir)[1]) # 0

\* the next entry at or after position k the section loop fetches, 0 when none
NextSection(t, rootDir, k) ==
    IF \E j \in k..Len(t) : IsSectionNode(t[j], rootDir)
    THEN CHOOSE j \in k..Len(t) :
            /\ IsSectionNode(t[j], rootDir)
            /\ \A m \in k..(j - 1) : ~IsSectionNode(t[m], rootDir)
    ELSE 0

\* the next entry at or after position k the article loop fetches, 0 when none
NextArticle(t, rootDir, hs, k) ==
    IF \E j \in k..Len(t) : IsArticleNode(t[j], rootDir, hs)
    THEN CHOOSE j \in k..Len(t) :
            /\ IsArticleNode(t[j], rootDir, hs)
            /\ \A m \in k..(j - 1) : ~IsArticleNode(t[m], rootDir, hs)
    ELSE 0

\* github.fetchFileContent(node.url, ...): the content of the file at that path
FileHtml(node) == [kind |-> "file", path |-> node.path]

ExampleTree ==
    << Blob(<<"index.html">>), Blob(<<"services", "index.html">>),
       Blob(<<"services", "consulting.html">>), Blob(<<"about.html">>) >>

NoRepeats(t) ==
    \A i, j \in DOMAIN t : i # j => t[i] # t[j]

\* the entries the trees of the Import specification are made of
NodePool ==
    {Blob(<<"index.html">>), Blob(<<"docs", "index.html">>),
     Blob(<<"services", "index.html">>), Blob(<<"services", "consulting.html">>),
     Blob(<<"docs", "services", "index.html">>), Blob(<<"index", "index.html">>),
     Blob(<<"index", "about.html">>), Blob(<<"services", "notes.html.bak.html">>),
     Blob(<<"services", "style.css">>), Node(<<"works", "index.html">>, "tree")}

\* a repository with two sections and two articles, the articles listed before their section
OrderTree ==
    << Blob(<<"services", "notes.html.bak.html">>), Blob(<<"index.html">>),
       Blob(<<"docs", "index.html">>), Blob(<<"services", "consulting.html">>),
       Blob(<<"services", "index.html">>) >>

\* a site kept under docs/, in a repository with pages of the same shape outside docs/
PrefixTree ==
    << Blob(<<"docs", "index.html">>), Blob(<<"docs2", "works", "index.html">>),
       Blob(<<"services", "index.html">>), Blob(<<"docs", "services", "index.html">>),
       Blob(<<"services", "consulting.html">>) >>

ImportTrees ==
    {t \in SeqsUpTo(NodePool, MaxTree) : NoRepeats(t)} \cup {ExampleTree, OrderTree, PrefixTree}

(***************************************************************************)
(* handleImport                                                            *)
(***************************************************************************)
\* what the user typed into the import form, pasted with surrounding blanks
importRepo == " owner/repo "
importToken == "ghp "

\* String.prototype.trim on the strings above
Trim(str) ==
    CASE str = " owner/repo " -> "owner/repo"
      [] str = "ghp " -> "ghp"
      [] OTHER -> str

rawRepo == Trim(importRepo)
cleanToken == Trim(importToken)

ImportIdle ==
    [cap |-> NoSnapshot, sig |-> NoToken, defaultBranch |-> "", rootDir |-> "", index |-> 0,
     identity |-> NoIdentity, hubs |-> <<>>, articles |-> <<>>]

ImportCall(op, i) == Call("import", op, i, imp.sig, <<>>, NoHtml, NoHtml)

\* repoDetails.default_branch || 'main'
DefaultBranchOf(b) == IF b = "" THEN "main" ELSE b

\* the hub pushed for the section entry at position i
ImportedHub(t, rootDir, i) ==
    [id |-> MinFree(UsedIds), slug |-> Parts(t[i], rootDir)[1], html |-> FileHtml(t[i])]

\* the article pushed for the article entry at position i
ImportedArticle(t, rootDir, hs, i) ==
    [id |-> MinFree(UsedIds),
     hubId |-> hs[FindHubBySlug(hs, Parts(t[i], rootDir)[1])].id,
     slug |-> StripHtml(Parts(t[i], rootDir)[2]),
     html |-> FileHtml(t[i])]

\* mutant: the config of line 188, whose path is empty, committed instead
ImportConfigTemp(l) ==
    [token |-> cleanToken, repo |-> rawRepo, branch |-> l.defaultBranch, path |-> ""]

ImportConfig(l) ==
    [token |-> cleanToken, repo |-> rawRepo, branch |-> l.defaultBranch, path |-> l.rootDir]

\* hubs.push(...)
PushHub(hs, h) == Append(hs, h)

\* mutant: the article put at the front of the list
UnshiftArticle(as, a) == <<a>> \o as

\* articles.push(...)
PushArticle(as, a) == Append(as, a)

\* what happens to ProjectState while Import is between its first call and its commit
ImportKeeps == UNCHANGED projectVars

\* mutant: the imported pages added to the pages already in ProjectState
ImportCommitAppend(l) ==
    /\ identity' = l.identity
    /\ hubs' = hubs \o l.hubs
    /\ articles' = articles \o l.articles
    /\ githubConfig' = ImportConfig(l)
    /\ SetStatus("ready")

\* lines 282-289
ImportCommit(l) ==
    /\ identity' = l.identity
    /\ hubs' = l.hubs
    /\ articles' = l.articles
    /\ githubConfig' = ImportConfig(l)
    /\ SetStatus("ready")

\* "if (signal.aborted) return": the handler ends, nothing else happens
ImportReturn(c, ev) ==
    /\ imp' = ImportIdle
    /\ pending' = {d \in pending : d.wf # "import"}
    /\ last' = Label("import", ev, c.op)

\* the loops from the section loop's position k on (l: the locals so far)
ImportLoops(c, l, phase, k) ==
    IF l.sig \in aborted
    THEN /\ ImportReturn(c, "abort")
         /\ ImportKeeps
         /\ UNCHANGED status
    ELSE LET s == IF phase = "section" THEN NextSection(tree, l.rootDir, k) ELSE 0
             a == IF phase = "section" THEN NextArticle(tree, l.rootDir, l.hubs, 1)
                  ELSE NextArticle(tree, l.rootDir, l.hubs, k)
         IN IF s # 0
            THEN /\ imp' = l
                 /\ pending' = (pending \ {c}) \cup {ImportCall("section", s)}
                 /\ last' = Quiet
                 /\ ImportKeeps
                 /\ UNCHANGED status
            ELSE IF a # 0
            THEN /\ imp' = l
                 /\ pending' = (pending \ {c}) \cup {ImportCall("article", a)}
                 /\ last' = Quiet
                 /\ ImportKeeps
                 /\ UNCHANGED status
            ELSE /\ ImportCommit(l)
                 /\ ImportReturn(c, "done")

StartImport ==
    /\ runs < MaxRuns
    /\ ~Running("import")
    /\ runs' = runs + 1
    /\ abortRef' = runs + 1
    /\ imp' = [ImportIdle EXCEPT !.cap = Snapshot, !.sig = runs + 1]
    /\ SetStatus("importing")
    /\ pending' = pending \cup {Call("import", "repoDetails", 0, runs + 1, <<>>, NoHtml, NoHtml)}
    /\ last' = Quiet
    /\ UNCHANGED <<projectVars, uiVars, aborted, bld, tun, pub, addp, envVars>>

ImportRepoDetailsOk ==
    \E c \in pending :
        /\ c.wf = "import" /\ c.op = "repoDetails"
        /\ imp' = [imp EXCEPT !.defaultBranch = DefaultBranchOf(repoBranch)]
        /\ pending' = (pending \ {c}) \cup {ImportCall("tree", 0)}
        /\ last' = Quiet
        /\ ImportKeeps
        /\ UNCHANGED <<status, uiVars, abortRef, aborted, bld, tun, pub, addp, runs, envVars>>

ImportTreeOk ==
    \E c \in pending :
        /\ c.wf = "import" /\ c.op = "tree"
        /\ LET idx == FindIndexNode(tree)
           IN IF idx = 0
              THEN \* throw new Error(...): catch, lines 301-304
                   /\ SetStatus("idle")
                   /\ imp' = ImportIdle
                   /\ pending' = {d \in pending : d.wf # "import"}
                   /\ last' = Label("import", "fail", "noindex")
              ELSE /\ SetStatus("analyzing_site")
                   /\ IF imp.sig \in aborted
                      THEN ImportReturn(c, "abort")
                      ELSE /\ imp' = [imp EXCEPT !.index = idx,
                                                 !.rootDir = RootDirOf(tree[idx].path)]
                           /\ pending' = (pending \ {c}) \cup {ImportCall("indexContent", idx)}
                           /\ last' = Quiet
        /\ ImportKeeps
        /\ UNCHANGED <<uiVars, abortRef, aborted, bld, tun, pub, addp, runs, envVars>>

ImportIndexContentOk ==
    \E c \in pending :
        /\ c.wf = "import" /\ c.op = "indexContent"
        /\ IF imp.sig \in aborted
           THEN ImportReturn(c, "abort")
           ELSE /\ imp' = [imp EXCEPT !.hubs = <<HomeHub(FileHtml(tree[c.i]))>>]
                /\ pending' = (pending \ {c})
                       \cup {Call("import", "analyze", 0, NoToken, <<>>, FileHtml(tree[c.i]), NoHtml)}
                /\ last' = Quiet
        /\ ImportKeeps
        /\ UNCHANGED <<status, uiVars, abortRef, aborted, bld, tun, pub, addp, runs, envVars>>

ImportAnalyzeOk ==
    \E c \in pending :
        /\ c.wf = "import" /\ c.op = "analyze"
        /\ ImportLoops(c, [imp EXCEPT !.identity = "imported"], "section", 1)
        /\ UNCHANGED <<uiVars, abortRef, aborted, bld, tun, pub, addp, runs, envVars>>

ImportSectionOk ==
    \E c \in pending :
        /\ c.wf = "import" /\ c.op = "section"
        /\ ImportLoops(c, [imp EXCEPT !.hubs = PushHub(@, ImportedHub(tree, imp.rootDir, c.i))],
                       "section", c.i + 1)
        /\ UNCHANGED <<uiVars, abortRef, aborted, bld, tun, pub, addp, runs, envVars>>

ImportArticleOk ==
    \E c \in pending :
        /\ c.wf = "import" /\ c.op = "article"
        /\ ImportLoops(c, [imp EXCEPT !.articles =
                               PushArticle(@, ImportedArticle(tree, imp.rootDir, imp.hubs, c.i))],
                       "article", c.i + 1)
        /\ UNCHANGED <<uiVars, abortRef, aborted, bld, tun, pub, addp, runs, envVars>>

\* the awaited call throws an error that is no AbortError: catch, lines 301-304
ImportFail ==
    \E c \in pending :
        /\ c.wf = "import"
        /\ SetStatus("idle")
        /\ ImportReturn(c, "fail")
        /\ ImportKeeps
        /\ UNCHANGED <<uiVars, abortRef, aborted, bld, tun, pub, addp, runs, envVars>>

\* mutant: the catch block without its test of error.name, as in handleInitialBuild
ImportAbortErrorReported ==
    \E c \in pending :
        /\ c.wf = "import"
        /\ c.sig # NoToken /\ c.sig \in aborted
        /\ SetStatus("idle")
        /\ ImportReturn(c, "fail")
        /\ ImportKeeps
        /\ UNCHANGED <<uiVars, abortRef, aborted, bld, tun, pub, addp, runs, envVars>>

\* the awaited storage call throws an AbortError: catch, lines 297-300
ImportAbortError ==
    \E c \in pending :
        /\ c.wf = "import"
        /\ c.sig # NoToken /\ c.sig \in aborted
        /\ ImportReturn(c, "aborterror")
        /\ ImportKeeps
        /\ UNCHANGED <<status, uiVars, abortRef, aborted, bld, tun, pub, addp, runs, envVars>>

(***************************************************************************)
(* handleTuneDesign                                                        *)
(***************************************************************************)
TuneIdle == [cap |-> NoSnapshot, target |-> 0]

\* xs.find(x => x.id === id): position, 0 when undefined
FindById(xs, id) ==
    IF \E j \in DOMAIN xs : xs[j].id = id
    THEN CHOOSE j \in DOMAIN xs : xs[j].id = id /\ \A k \in 1..(j - 1) : xs[k].id # id
    ELSE 0

\* targetHub?.html || targetArticle?.contentHtml (NoHtml when undefined)
CurrentHtml(s, id) ==
    LET h == FindById(s.hubs, id)
        a == FindById(s.articles, id)
    IN IF h # 0 /\ s.hubs[h].html # NoHtml THEN s.hubs[h].html
       ELSE IF a # 0 THEN s.articles[a].html
       ELSE NoHtml

\* state.hubs.find(h => h.slug === 'index')?.html (NoHtml when undefined)
HomeHtml(s) ==
    LET h == FindHubBySlug(s.hubs, "index")
    IN IF h = 0 THEN NoHtml ELSE s.hubs[h].html

\* mutant: the home page's markup handed over for every target, the home page included
ReferenceHtmlAlways(s, id) == HomeHtml(s)

\* lines 463-469: the exemplar handed to tunePageDesignAgent
ReferenceHtml(s, id) ==
    LET h == FindById(s.hubs, id)
    IN IF h # 0 /\ s.hubs[h].slug = "index" THEN NoHtml ELSE HomeHtml(s)

\* tunePageDesignAgent(currentHtml, referenceHtml, instruction, identity)
TunedHtml(c) == [kind |-> "tuned", of |-> c.html, ref |-> c.ref]

\* state.hubs.map(h => h.id === id ? { ...h, html } : h), articles alike
WithHtml(xs, id, html) ==
    [j \in DOMAIN xs |-> IF xs[j].id = id THEN [xs[j] EXCEPT !.html = html] ELSE xs[j]]

\* the pages a user can select as tuning target (lines 767-776)
TuneTargets == HubIds(hubs) \cup {articles[j].id : j \in DOMAIN articles}

\* mutant: one tuning call for every page of the project, dispatched together
TuneCallsForAll(s, id) ==
    {Call("tune", "tune", x, NoToken, <<>>, CurrentHtml(s, x), ReferenceHtml(s, x)) :
        x \in {y \in HubIds(s.hubs) \cup {s.articles[j].id : j \in DOMAIN s.articles} :
                  CurrentHtml(s, y) # NoHtml}}

\* lines 471-476: the one call handleTuneDesign makes, for the selected page
TuneCallsFor(s, id) ==
    {Call("tune", "tune", id, NoToken, <<>>, CurrentHtml(s, id), ReferenceHtml(s, id))}

\* mutant: the failure path of Build (status idle) copied into Tune
TuneFinallyIdle == SetStatus("idle")

\* the status the finally block of handleTuneDesign writes
TuneFinally == SetStatus("ready")

StartTune ==
    \E id \in TuneTargets :
        /\ runs < MaxRuns
        /\ ~Running("tune")
        /\ identity # NoIdentity
        /\ runs' = runs + 1
        /\ IF CurrentHtml(Snapshot, id) = NoHtml
           THEN \* throw new Error(...): catch, finally
                /\ TuneFinally
                /\ UNCHANGED <<tun, pending>>
                /\ last' = Label("tune", "fail", "nocontent")
           ELSE /\ SetStatus("tuning_design")
                /\ tun' = [cap |-> Snapshot, target |-> id]
                /\ pending' = pending \cup TuneCallsFor(Snapshot, id)
                /\ last' = Quiet
        /\ UNCHANGED <<projectVars, uiVars, abortRef, aborted, bld, imp, pub, addp, envVars>>

TuneOk ==
    \E c \in pending :
        /\ c.wf = "tune"
        /\ IF FindById(tun.cap.hubs, tun.target) # 0
           THEN /\ hubs' = WithHtml(tun.cap.hubs, tun.target, TunedHtml(c))
                /\ UNCHANGED articles
           ELSE /\ articles' = WithHtml(tun.cap.articles, tun.target, TunedHtml(c))
                /\ UNCHANGED hubs
        /\ TuneFinally
        /\ tun' = TuneIdle
        /\ pending' = {d \in pending : d.wf # "tune"}
        /\ last' = Label("tune", "done", c.op)
        /\ UNCHANGED <<identity, githubConfig, uiVars, abortRef, aborted, bld, imp, pub, addp,
                       runs, envVars>>

TuneFail ==
    \E c \in pending :
        /\ c.wf = "tune"
        /\ TuneFinally
        /\ tun' = TuneIdle
        /\ pending' = {d \in pending : d.wf # "tune"}
        /\ last' = Label("tune", "fail", c.op)
        /\ UNCHANGED <<projectVars, uiVars, abortRef, aborted, bld, imp, pub, addp, runs,
                       envVars>>

(***************************************************************************)
(* handleCreateAndPublish                                                  *)
(***************************************************************************)
PublishIdle == [cap |-> NoSnapshot, sig |-> NoToken]

PublishCall(op, sig) == Call("publish", op, 0, sig, <<>>, NoHtml, NoHtml)

\* return or end of the try block: finally (lines 537-540)
PublishReturn(c, ev) ==
    /\ publishStatus' = "idle"
    /\ pub' = PublishIdle
    /\ pending' = {d \in pending : d.wf # "publish"}
    /\ last' = Label("publish", ev, c.op)

\* mutant: the push dispatched together with the call before it
PublishContinueBoth(c, op, sig) ==
    /\ pending' = (pending \ {c}) \cup {PublishCall(op, sig), PublishCall("publishToGithub", sig)}
    /\ last' = Quiet
    /\ UNCHANGED <<pub, publishStatus>>

\* the handler goes on to its next await
PublishContinue(c, op, sig) ==
    /\ pending' = (pending \ {c}) \cup {PublishCall(op, sig)}
    /\ last' = Quiet
    /\ UNCHANGED <<pub, publishStatus>>

\* mutant: a failed step rolls status back as a cancellation does
PublishFailStatusIdle == "idle"

\* the status written when a step other than a cancellation fails (line 536)
PublishFailStatus == "ready"

StartPublish ==
    /\ runs < MaxRuns
    /\ ~Running("publish")
    /\ publishStatus # "processing"
    /\ identity # NoIdentity
    /\ githubConfig.token # "" /\ githubConfig.repo # ""
    /\ runs' = runs + 1
    /\ abortRef' = runs + 1
    /\ publishStatus' = "processing"
    /\ SetStatus("creating_repo")
    /\ pub' = [cap |-> Snapshot, sig |-> runs + 1]
    /\ pending' = pending \cup {PublishCall("createRepository", runs + 1)}
    /\ last' = Quiet
    /\ UNCHANGED <<projectVars, isGeneratingProject, aborted, bld, imp, tun, addp, envVars>>

PublishCreateRepoOk ==
    \E c \in pending :
        /\ c.wf = "publish" /\ c.op = "createRepository"
        /\ SetStatus("pushing_files")
        /\ IF pub.sig \in aborted
           THEN PublishReturn(c, "abort")
           ELSE PublishContinue(c, "generateReadme", NoToken)
        /\ UNCHANGED <<projectVars, isGeneratingProject, abortRef, aborted, bld, imp, tun,
                       addp, runs, envVars>>

PublishReadmeOk ==
    \E c \in pending :
        /\ c.wf = "publish" /\ c.op = "generateReadme"
        /\ IF pub.sig \in aborted
           THEN PublishReturn(c, "abort")
           ELSE PublishContinue(c, "publishToGithub", pub.sig)
        /\ UNCHANGED <<status, projectVars, isGeneratingProject, abortRef, aborted, bld, imp,
                       tun, addp, runs, envVars>>

PublishPushOk ==
    \E c \in pending :
        /\ c.wf = "publish" /\ c.op = "publishToGithub"
        /\ SetStatus("enabling_pages")
        /\ PublishContinue(c, "enablePages", pub.sig)
        /\ UNCHANGED <<projectVars, isGeneratingProject, abortRef, aborted, bld, imp, tun,
                       addp, runs, envVars>>

PublishEnablePagesOk ==
    \E c \in pending :
        /\ c.wf = "publish" /\ c.op = "enablePages"
        /\ SetStatus("ready")
        /\ PublishReturn(c, "done")
        /\ UNCHANGED <<projectVars, isGeneratingProject, abortRef, aborted, bld, imp, tun,
                       addp, runs, envVars>>

\* the awaited call throws an error that is no AbortError (lines 535-536)
PublishFail ==
    \E c \in pending :
        /\ c.wf = "publish"
        /\ SetStatus(PublishFailStatus)
        /\ PublishReturn(c, "fail")
        /\ UNCHANGED <<projectVars, isGeneratingProject, abortRef, aborted, bld, imp, tun,
                       addp, runs, envVars>>

\* the awaited storage call throws an AbortError (lines 531-534)
PublishAbortError ==
    \E c \in pending :
        /\ c.wf = "publish"
        /\ c.sig # NoToken /\ c.sig \in aborted
        /\ PublishReturn(c, "aborterror")
        /\ UNCHANGED <<status, projectVars, isGeneratingProject, abortRef, aborted, bld, imp,
                       tun, addp, runs, envVars>>

(***************************************************************************)
(* handleAddProject                                                        *)
(***************************************************************************)
AddIdle == [cap |-> NoSnapshot, target |-> 0, updatedArticles |-> <<>>]

AddCall(op, links, ref) == Call("add", op, 0, NoToken, links, NoHtml, ref)

\* the slugs of the articles of hub id, for the hub's link list (lines 408-409)
HubArticleLinks(as, id) ==
    LET RECURSIVE Pick(_)
        Pick(k) == IF k > Len(as) THEN <<>>
                   ELSE IF as[k].hubId = id THEN <<as[k].slug>> \o Pick(k + 1)
                   ELSE Pick(k + 1)
    IN Pick(1)

\* the hub ids generateProjectShowcaseAgent may name: any string
ShowcaseTargets(s) == HubIds(s.hubs) \cup {MinFree(UsedIds)}

\* finally (lines 423-427)
AddReturn(c, ev) ==
    /\ isGeneratingProject' = FALSE
    /\ addp' = AddIdle
    /\ pending' = {d \in pending : d.wf # "add"}
    /\ last' = Label("add", ev, c.op)

\* lines 414-416
AddCommit(l, newHubHtml) ==
    /\ articles' = l.updatedArticles
    /\ hubs' = WithHtml(l.cap.hubs, l.target, newHubHtml)

StartAddProject ==
    /\ runs < MaxRuns
    /\ ~Running("add")
    /\ identity # NoIdentity
    /\ ~isGeneratingProject
    /\ runs' = runs + 1
    /\ isGeneratingProject' = TRUE
    /\ addp' = [AddIdle EXCEPT !.cap = Snapshot]
    /\ pending' = pending \cup {AddCall("showcase", <<>>, NoHtml)}
    /\ last' = Quiet
    /\ UNCHANGED <<status, projectVars, publishStatus, abortRef, aborted, bld, imp, tun, pub,
                   envVars>>

AddShowcaseOk ==
    \E c \in pending :
        /\ c.wf = "add" /\ c.op = "showcase"
        /\ \E id \in ShowcaseTargets(addp.cap) :
              IF FindById(addp.cap.hubs, id) = 0
              THEN \* throw new Error("セクションマッチング失敗"): catch, finally
                   AddReturn(c, "fail")
              ELSE /\ addp' = [addp EXCEPT !.target = id]
                   /\ pending' = (pending \ {c})
                          \cup {AddCall("content", <<"../index.html", "index.html">>,
                                        HomeHtml(addp.cap))}
                   /\ last' = Quiet
                   /\ UNCHANGED isGeneratingProject
        /\ UNCHANGED <<status, projectVars, publishStatus, abortRef, aborted, bld, imp, tun,
                       pub, runs, envVars>>

AddContentOk ==
    \E c \in pending :
        /\ c.wf = "add" /\ c.op = "content"
        /\ LET newArticle == [id |-> MinFree(UsedIds), hubId |-> addp.target,
                              slug |-> "project", html |-> GenHtml(c)]
               updated == Append(addp.cap.articles, newArticle)
           IN /\ addp' = [addp EXCEPT !.updatedArticles = updated]
              /\ pending' = (pending \ {c})
                     \cup {AddCall("hub", <<"../index.html">> \o HubArticleLinks(updated, addp.target),
                                   HomeHtml(addp.cap))}
        /\ last' = Quiet
        /\ UNCHANGED <<status, projectVars, uiVars, abortRef, aborted, bld, imp, tun, pub,
                       runs, envVars>>

AddHubOk ==
    \E c \in pending :
        /\ c.wf = "add" /\ c.op = "hub"
        /\ AddCommit(addp, GenHtml(c))
        /\ AddReturn(c, "done")
        /\ UNCHANGED <<status, identity, githubConfig, publishStatus, abortRef, aborted, bld,
                       imp, tun, pub, runs, envVars>>

AddFail ==
    \E c \in pending :
        /\ c.wf = "add"
        /\ AddReturn(c, "fail")
        /\ UNCHANGED <<status, projectVars, publishStatus, abortRef, aborted, bld, imp, tun,
                       pub, runs, envVars>>

(***************************************************************************)
(* updateGithubConfig: the user types the publish target (lines 839-843)   *)
(***************************************************************************)
EditGithubConfig ==
    /\ identity # NoIdentity
    /\ githubConfig.token = "" \/ githubConfig.repo = ""
    /\ githubConfig' = [githubConfig EXCEPT !.token = "pat", !.repo = "me/site"]
    /\ last' = Quiet
    /\ UNCHANGED <<status, identity, hubs, articles, uiVars, abortRef, aborted, pending,
                   bld, imp, tun, pub, addp, runs, envVars>>

(***************************************************************************)
(* handleCancelProcess                                                     *)
(***************************************************************************)
\* the status handleCancelProcess writes
CancelStatus == "idle"

CancelProcess ==
    /\ isBusy
    /\ aborted' = IF abortRef # NoToken THEN aborted \cup {abortRef} ELSE aborted
    /\ abortRef' = NoToken
    /\ SetStatus(CancelStatus)
    /\ isGeneratingProject' = FALSE
    /\ publishStatus' = "idle"
    /\ last' = Label("user", "cancel", "")
    /\ UNCHANGED <<projectVars, pending, bld, imp, tun, pub, addp, runs, envVars>>

(***************************************************************************)
(* Mounting: useState's initializer reads the document stored under        *)
(* STORAGE_KEY (lines 24-37).  Before the component is mounted the project *)
(* variables hold no state of the program; they are kept at the default    *)
(* values, and no handler can run.                                         *)
(***************************************************************************)
\* localStorage.getItem returns null
NoDocument == [kind |-> "absent"]
\* a stored string JSON.parse rejects
Unparsable == [kind |-> "unparsable"]
\* JSON.stringify(state)
Document(project) == [kind |-> "json", state |-> project]

\* the project Import leaves behind for ExampleTree
ImportedSite ==
    [status |-> "ready", identity |-> "imported",
     hubs |-> <<HomeHub(FileHtml(ExampleTree[1])),
                [id |-> 1, slug |-> "services", html |-> FileHtml(ExampleTree[2])]>>,
     articles |-> <<[id |-> 2, hubId |-> 1, slug |-> "consulting",
                     html |-> FileHtml(ExampleTree[3])]>>,
     githubConfig |-> [token |-> cleanToken, repo |-> rawRepo, branch |-> "main",
                       path |-> ""]]

\* the project Build leaves behind for a strategy of one section
BuiltSite ==
    [status |-> "ready", identity |-> "built",
     hubs |-> <<HomeHub([kind |-> "page", page |-> "home", i |-> 0, links |-> <<"about">>,
                         ref |-> NoHtml]),
                [id |-> 1, slug |-> "about",
                 html |-> [kind |-> "page", page |-> "section", i |-> 1,
                           links |-> <<"../index.html">>, ref |-> NoHtml]]>>,
     articles |-> <<>>,
     githubConfig |-> DefaultConfig]

\* the default project of the initializer (lines 27-36)
DefaultProject ==
    [status |-> "idle", identity |-> NoIdentity, hubs |-> <<>>, articles |-> <<>>,
     githubConfig |-> DefaultConfig]

\* what the effect at lines 63-65 can have stored: the project as it was at any moment,
\* a moment in the middle of a workflow included
StoredDocuments ==
    {NoDocument, Unparsable, Document(DefaultProject), Document(ImportedSite),
     Document(BuiltSite), Document([ImportedSite EXCEPT !.status = "pushing_files"]),
     Document([BuiltSite EXCEPT !.status = "tuning_design"])}

AppFresh == [pc |-> "mounted", saved |-> NoDocument]
AppUnmounted(doc) == [pc |-> "unmounted", saved |-> doc]

\* lines 24-37: if (saved) return JSON.parse(saved); return { ...default... }
LoadState(doc) ==
    IF doc = NoDocument THEN [pc |-> "mounted", state |-> DefaultProject]
    ELSE IF doc = Unparsable THEN [pc |-> "threw", state |-> DefaultProject]
    ELSE [pc |-> "mounted", state |-> doc.state]

\* the first render of App
Mount ==
    /\ app.pc = "unmounted"
    /\ LET l == LoadState(app.saved)
       IN /\ app' = [app EXCEPT !.pc = l.pc]
          /\ status' = l.state.status
          /\ identity' = l.state.identity
          /\ hubs' = l.state.hubs
          /\ articles' = l.state.articles
          /\ githubConfig' = l.state.githubConfig
    /\ last' = Quiet
    /\ UNCHANGED <<uiVars, abortRef, aborted, pending, bld, imp, tun, pub, addp, runs,
                   tree, repoBranch, strategy, rt>>

(***************************************************************************)
(* retryWithBackoff.  geminiService.ts holds two definitions: lines 15-44  *)
(* take an optional AbortSignal (ver 1), lines 313-364 take none (ver 2);  *)
(* the agents App.tsx calls (lines 432-668) use the second.  The operation *)
(* is ai.models.generateContent, which is given no signal.                 *)
(***************************************************************************)
defaultMaxRetries == 5
initialDelay == [num |-> 2000, den |-> 1]

\* delay *= 1.5, as an exact fraction
Times15(d) == [num |-> d.num * 3, den |-> d.den * 2]

\* how one invocation of the operation can end
Outcomes == {"ok", "network", "ratelimit", "overloaded", "other"}
Failures == Outcomes \ {"ok"}

isNetworkError(e) == e = "network"
isRateLimit(e) == e = "ratelimit"
\* mutant: every error is retried
isRetryableAlways(e) == TRUE

isRetryable(e) == isNetworkError(e) \/ isRateLimit(e) \/ e = "overloaded"

\* what the wrapper throws for an error it does not retry
ThrownError(ver, e) ==
    IF ver = 2 /\ isNetworkError(e) THEN "network_message"
    ELSE IF ver = 2 /\ isRateLimit(e) THEN "quota_message"
    ELSE e

RetryIdle ==
    [pc |-> "idle", ver |-> 0, apiKey |-> TRUE, maxRetries |-> 0, signal |-> FALSE,
     aborted |-> FALSE, i |-> 0, delay |-> initialDelay, calls |-> 0, script |-> <<>>,
     waits |-> <<>>, result |-> "none"]

\* a call as its caller makes it: ver 2 has no signal parameter.  script[n] is how the
\* n-th invocation of the operation ends (the loop never invokes it more than
\* maxRetries times).
RetryCall(v, k, m, g, sc) ==
    [RetryIdle EXCEPT !.pc = "called", !.ver = v, !.apiKey = k, !.maxRetries = m,
                      !.signal = g, !.script = sc]

\* signal?.aborted
SeesAbort(r) == r.ver = 1 /\ r.signal /\ r.aborted

Throw(r, e) == [r EXCEPT !.pc = "threw", !.result = e]

\* the head of the for loop: the test i < maxRetries, the abort check of ver 1, the call
LoopTop(r) ==
    IF r.i < r.maxRetries
    THEN IF SeesAbort(r) THEN Throw(r, "abort")
         ELSE [r EXCEPT !.pc = "attempt", !.calls = @ + 1]
    ELSE Throw(r, "exhausted")

\* mutant: the first error is final
CaughtNoRetry(r, e) ==
    IF SeesAbort(r) THEN Throw(r, "abort") ELSE Throw(r, ThrownError(r.ver, e))

\* mutant: the budget test off by one (i === maxRetries)
CaughtOneMore(r, e) ==
    IF SeesAbort(r) THEN Throw(r, "abort")
    ELSE IF ~isRetryable(e) \/ r.i = r.maxRetries THEN Throw(r, ThrownError(r.ver, e))
    ELSE [r EXCEPT !.pc = "wait", !.waits = Append(@, r.delay)]

\* the catch block for error e
Caught(r, e) ==
    IF SeesAbort(r) THEN Throw(r, "abort")
    ELSE IF ~isRetryable(e) \/ r.i = r.maxRetries - 1 THEN Throw(r, ThrownError(r.ver, e))
    ELSE [r EXCEPT !.pc = "wait", !.waits = Append(@, r.delay)]

RetryEnter ==
    /\ rt.pc = "called"
    /\ rt' = IF ~rt.apiKey THEN Throw(rt, "nokey") ELSE LoopTop(rt)
    /\ UNCHANGED handlerVars

RetryOpReturns ==
    /\ rt.pc = "attempt"
    /\ rt.script[rt.calls] = "ok"
    /\ rt' = [rt EXCEPT !.pc = "returned", !.result = "value"]
    /\ UNCHANGED handlerVars

RetryOpThrows ==
    /\ rt.pc = "attempt"
    /\ rt.script[rt.calls] \in Failures
    /\ rt' = Caught(rt, rt.script[rt.calls])
    /\ UNCHANGED handlerVars

\* the backoff timer fires
RetryWake ==
    /\ rt.pc = "wait"
    /\ rt' = LoopTop([rt EXCEPT !.delay = Times15(@), !.i = @ + 1])
    /\ UNCHANGED handlerVars

\* the caller's AbortController is aborted while the call is running
RetryAbort ==
    /\ rt.pc \in {"called", "attempt", "wait"}
    /\ ~rt.aborted
    /\ rt' = [rt EXCEPT !.aborted = TRUE]
    /\ UNCHANGED handlerVars

(***************************************************************************)
(* Specification                                                           *)
(***************************************************************************)

InitEngine ==
    /\ status = "idle"
    /\ identity = NoIdentity
    /\ hubs = <<>>
    /\ articles = <<>>
    /\ githubConfig = DefaultConfig
    /\ publishStatus = "idle"
    /\ isGeneratingProject = FALSE
    /\ abortRef = NoToken
    /\ aborted = {}
    /\ pending = {}
    /\ bld = BuildIdle
    /\ imp = ImportIdle
    /\ tun = TuneIdle
    /\ pub = PublishIdle
    /\ addp = AddIdle
    /\ runs = 0
    /\ last = Quiet

\* the engine against one repository and one strategy response
Init ==
    /\ InitEngine
    /\ tree = ExampleTree
    /\ repoBranch = ""
    /\ strategy = <<"about", "works">>
    /\ rt = RetryIdle
    /\ app = AppFresh

Next ==
    \/ StartBuild
    \/ BuildIdentityOk
    \/ BuildStrategyOk
    \/ BuildSectionOk
    \/ BuildHomeOk
    \/ BuildFail
    \/ StartImport
    \/ ImportRepoDetailsOk
    \/ ImportTreeOk
    \/ ImportIndexContentOk
    \/ ImportAnalyzeOk
    \/ ImportSectionOk
    \/ ImportArticleOk
    \/ ImportFail
    \/ ImportAbortError
    \/ StartTune
    \/ TuneOk
    \/ TuneFail
    \/ StartPublish
    \/ PublishCreateRepoOk
    \/ PublishReadmeOk
    \/ PublishPushOk
    \/ PublishEnablePagesOk
    \/ PublishFail
    \/ PublishAbortError
    \/ StartAddProject
    \/ AddShowcaseOk
    \/ AddContentOk
    \/ AddHubOk
    \/ AddFail
    \/ EditGithubConfig
    \/ CancelProcess

Spec == Init /\ [][Next]_vars

(***************************************************************************)
(* Build against every strategy response of at most MaxSections stubs      *)
(***************************************************************************)
InitBuild ==
    /\ InitEngine
    /\ tree = ExampleTree
    /\ repoBranch = ""
    /\ strategy \in Strategies
    /\ rt = RetryIdle
    /\ app = AppFresh

NextBuild ==
    \/ StartBuild
    \/ BuildIdentityOk
    \/ BuildStrategyOk
    \/ BuildSectionOk
    \/ BuildHomeOk
    \/ BuildFail
    \/ CancelProcess

SpecBuild == InitBuild /\ [][NextBuild]_vars

(***************************************************************************)
(* Import against every tree of at most MaxTree entries                    *)
(***************************************************************************)
InitImport ==
    /\ InitEngine
    /\ tree \in ImportTrees
    /\ repoBranch \in {"", "dev"}
    /\ strategy = <<>>
    /\ rt = RetryIdle
    /\ app = AppFresh

NextImport ==
    \/ StartImport
    \/ ImportRepoDetailsOk
    \/ ImportTreeOk
    \/ ImportIndexContentOk
    \/ ImportAnalyzeOk
    \/ ImportSectionOk
    \/ ImportArticleOk
    \/ ImportFail
    \/ ImportAbortError
    \/ CancelProcess

SpecImport == InitImport /\ [][NextImport]_vars

\* one call of retryWithBackoff, for every version, budget, key and operation behaviour
InitRetry ==
    /\ InitEngine
    /\ tree = ExampleTree
    /\ repoBranch = ""
    /\ strategy = <<>>
    /\ \E v \in {1, 2}, k \in BOOLEAN, m \in 0..MaxAttempts, g \in BOOLEAN :
          /\ v = 2 => ~g
          /\ \E sc \in [1..m -> Outcomes] : rt = RetryCall(v, k, m, g, sc)
    /\ app = AppFresh

NextRetry ==
    \/ RetryEnter
    \/ RetryOpReturns
    \/ RetryOpThrows
    \/ RetryWake
    \/ RetryAbort

SpecRetry == InitRetry /\ [][NextRetry]_vars

\* the component mounted on a stored document, then Publish, Tune and add-project on the
\* loaded project
InitReload ==
    /\ InitEngine
    /\ tree = ExampleTree
    /\ repoBranch = ""
    /\ strategy = <<>>
    /\ rt = RetryIdle
    /\ \E doc \in StoredDocuments : app = AppUnmounted(doc)

NextReload ==
    \/ Mount
    \/ EditGithubConfig
    \/ StartTune
    \/ TuneOk
    \/ TuneFail
    \/ StartAddProject
    \/ AddShowcaseOk
    \/ AddContentOk
    \/ AddHubOk
    \/ AddFail
    \/ StartPublish
    \/ PublishCreateRepoOk
    \/ PublishReadmeOk
    \/ PublishPushOk
    \/ PublishEnablePagesOk
    \/ PublishFail
    \/ PublishAbortError
    \/ CancelProcess

SpecReload == InitReload /\ [][NextReload]_vars

(***************************************************************************)
(* Claims                                                                  *)
(***************************************************************************)
Workflows == {"build", "import", "tune", "publish"}
InFlight == {c.wf : c \in pending} \cap Workflows

BuildAct ==
    StartBuild \/ BuildIdentityOk \/ BuildStrategyOk \/ BuildSectionOk \/ BuildHomeOk
    \/ BuildFail
ImportAct ==
    StartImport \/ ImportRepoDetailsOk \/ ImportTreeOk \/ ImportIndexContentOk
    \/ ImportAnalyzeOk \/ ImportSectionOk \/ ImportArticleOk \/ ImportFail
    \/ ImportAbortError
TuneAct == StartTune \/ TuneOk \/ TuneFail
PublishAct ==
    StartPublish \/ PublishCreateRepoOk \/ PublishReadmeOk \/ PublishPushOk
    \/ PublishEnablePagesOk \/ PublishFail \/ PublishAbortError
StartAct == StartBuild \/ StartImport \/ StartTune \/ StartPublish

Ended(wf, ev) == last.wf = wf /\ last.ev = ev
IndexHubs(hs) == {i \in DOMAIN hs : hs[i].slug = "index"}
DistinctSlugs(hs) == \A i, j \in DOMAIN hs : i # j => hs[i].slug # hs[j].slug

\* C1: no workflow handler starts while status is neither idle nor ready, and at no
\* reachable state are two workflows in flight at once.
C1_StartRejectedWhileBusy ==
    [][(isBusy => ~StartAct) /\ Cardinality(InFlight') <= 1]_vars

\* C2: after every mutation of hubs, a non-empty hubs list holds exactly one HubPage
\* whose slug is "index".
C2_ExactlyOneIndexHub == hubs # <<>> => Cardinality(IndexHubs(hubs)) = 1

\* C3: in every state reached by a workflow that has just completed, every article's
\* hubId is the id of a HubPage in hubs.
C3_NoDanglingHubId ==
    last.ev = "done" => \A i \in DOMAIN articles : articles[i].hubId \in HubIds(hubs)

\* C4: in every state reached by a workflow that has just completed, the slugs of the
\* HubPages are pairwise distinct, whatever the strategy response was.
C4_HubSlugsDistinct == last.ev = "done" => DistinctSlugs(hubs)

\* C5: a step of a workflow that does not end the workflow leaves identity, hubs and
\* articles as they are: they change only in the step that completes it.
C5_WritesOnlyAtCompletion ==
    [][((BuildAct /\ Running("build")') \/ (ImportAct /\ Running("import")')
        \/ (TuneAct /\ Running("tune")') \/ (PublishAct /\ Running("publish")'))
       => UNCHANGED <<identity, hubs, articles>>]_vars

\* C6: when Build fails while generating a section page or the home page, status ends
\* at idle and hubs equals its value before the run started.
C6_FailedBuildKeepsHubs ==
    [][(BuildFail /\ last'.at \in {"section", "home"})
       => (status' = "idle" /\ hubs' = bld.cap.hubs)]_vars

\* C7: a Build whose generation calls all succeed ends with status ready and hubs equal
\* to the home page (id home, slug "index", the generated home markup) followed by one
\* HubPage per stub of the strategy response, in its order, each with its generated markup.
C7_BuildResult ==
    Ended("build", "done") =>
        /\ status = "ready"
        /\ Len(hubs) = Len(strategy) + 1
        /\ hubs[1].id = HomeId /\ hubs[1].slug = "index"
        /\ hubs[1].html.kind = "page" /\ hubs[1].html.page = "home"
        /\ \A i \in DOMAIN strategy :
              /\ hubs[i + 1].slug = strategy[i]
              /\ hubs[i + 1].id # HomeId
              /\ hubs[i + 1].html.kind = "page"
              /\ hubs[i + 1].html.page = "section"
              /\ hubs[i + 1].html.i = i
        /\ \A i, j \in DOMAIN hubs : i # j => hubs[i].id # hubs[j].id

\* C7 witness: a Build over a strategy of two stubs has just completed.
C7_Witness == Ended("build", "done") /\ Len(hubs) = 3 /\ status = "ready"

\* C8: within a Build run at most one generation call is outstanding; the strategy call
\* starts once identity is derived, section i is requested once the pages of sections
\* 1..i-1 have returned, and the home page is requested once every section page has
\* returned, with links to exactly those sections.
C8_BuildSequential ==
    LET calls == {c \in pending : c.wf = "build"}
    IN /\ Cardinality(calls) <= 1
       /\ \A c \in calls :
             /\ c.op = "identity" => (bld.identity = NoIdentity /\ bld.hubs = <<>>)
             /\ c.op = "strategy" => (bld.identity # NoIdentity /\ bld.hubs = <<>>)
             /\ c.op = "section" =>
                   /\ c.i = Len(bld.updatedHubs) + 1
                   /\ c.i <= Len(bld.hubs)
                   /\ Slugs(bld.updatedHubs) = SubSeq(strategy, 1, c.i - 1)
             /\ c.op = "home" =>
                   /\ Slugs(bld.updatedHubs) = strategy
                   /\ c.links = strategy
                   /\ \A j \in DOMAIN bld.updatedHubs : bld.updatedHubs[j].html # NoHtml

\* C8 witness: the home page call is outstanding after two section pages returned.
C8_Witness ==
    \E c \in pending : c.wf = "build" /\ c.op = "home" /\ Len(c.links) = 2

\* C9: Import writes identity, hubs, articles and githubConfig in the one step that
\* ends a fully successful run; every other step of Import leaves them unchanged, and a
\* step in which a stage fails sets status idle with all four as they were before the run.
C9_ImportCommitsAtOnce ==
    [][ImportAct =>
         IF last'.wf = "import" /\ last'.ev = "done"
         THEN /\ status' = "ready"
              /\ identity' = "imported"
              /\ hubs' # <<>> /\ hubs'[1] = HomeHub(FileHtml(tree[imp.index]))
              /\ githubConfig' = [token |-> cleanToken, repo |-> rawRepo,
                                  branch |-> DefaultBranchOf(repoBranch),
                                  path |-> RootDirOf(tree[imp.index].path)]
         ELSE /\ UNCHANGED projectVars
              /\ (last'.wf = "import" /\ last'.ev = "fail")
                    => (status' = "idle" /\ Snapshot' = imp.cap)]_vars

\* the earliest candidate of possibleIndexPaths the tree holds
PriorityIndexPath(t) ==
    LET present(k) == \E j \in DOMAIN t : t[j].path = possibleIndexPaths[k]
    IN possibleIndexPaths[CHOOSE k \in DOMAIN possibleIndexPaths :
                              present(k) /\ \A m \in 1..(k - 1) : ~present(m)]

\* C10: the root index file Import selects is the earliest candidate of the fixed list
\* that is present in the tree, whatever the order of the tree's entries.
C10_IndexByCandidatePriority ==
    imp.index # 0 => tree[imp.index].path = PriorityIndexPath(tree)

HasIndexCandidate(t) == \E j \in DOMAIN t : IsIndexCandidate(t[j].path)
ImportCalls(ps) == {c \in ps : c.wf = "import"}

\* C11: when the tree holds none of the candidate index paths, the step that receives
\* the tree ends Import with a failure: status idle, identity, hubs, articles and
\* githubConfig unchanged, and no further call of Import (no content fetch, no
\* generation call, no second tree request) dispatched.
C11_NoIndexFailsAtOnce ==
    [][(ImportTreeOk /\ ~HasIndexCandidate(tree)) =>
         /\ status' = "idle"
         /\ UNCHANGED projectVars
         /\ ImportCalls(pending') = {}
         /\ ~Running("import")'
         /\ last' = Label("import", "fail", "noindex")]_vars

\* C11 witness: Import has just failed on a non-empty tree without an index candidate.
C11_Witness ==
    /\ last = Label("import", "fail", "noindex")
    /\ tree # <<>> /\ ~HasIndexCandidate(tree)
    /\ status = "idle" /\ hubs = <<>> /\ ImportCalls(pending) = {}

\* the file name without its .html extension
BaseName(name) ==
    CASE name = "index.html" -> "index"
      [] name = "consulting.html" -> "consulting"
      [] name = "about.html" -> "about"
      [] name = "notes.html.bak.html" -> "notes.html.bak"
      [] OTHER -> name

\* the path of an entry relative to the root prefix, <<>> when it is not under it
RelPath(node, prefix) ==
    IF prefix = "" THEN node.path
    ELSE IF Len(node.path) >= 2 /\ node.path[1] = prefix THEN Tail(node.path)
    ELSE <<>>
HtmlBlob(node) ==
    node.type = "blob" /\ node.path # <<>> /\ node.path[Len(node.path)] \in HtmlFiles
SectionShaped(node, prefix) ==
    HtmlBlob(node) /\ Len(RelPath(node, prefix)) = 2 /\ RelPath(node, prefix)[2] = "index.html"
ArticleShaped(node, prefix) ==
    HtmlBlob(node) /\ Len(RelPath(node, prefix)) = 2 /\ RelPath(node, prefix)[2] # "index.html"
SectionEntries(t, prefix) == {j \in DOMAIN t : SectionShaped(t[j], prefix)}
ArticleEntries(t, prefix) == {j \in DOMAIN t : ArticleShaped(t[j], prefix)}
EntryOf(t, html) == CHOOSE j \in DOMAIN t : t[j].path = html.path
FromTree(t, html) == html.kind = "file" /\ \E j \in DOMAIN t : t[j].path = html.path

\* C12: the result of Import is the home page (the index file under the root prefix),
\* one section per html blob <segment>/index.html with slug <segment>, and articles that
\* each come from an html blob <segment>/<name>.html (name other than index) with slug
\* <name>, every such blob under a section of the tree being imported; no other entry
\* contributes, and the example tree yields exactly home, section services and article
\* consulting.
C12_ImportClassification ==
    Ended("import", "done") =>
        LET prefix == githubConfig.path
            secs == SectionEntries(tree, prefix)
            arts == ArticleEntries(tree, prefix)
        IN /\ hubs # <<>>
           /\ hubs[1].id = HomeId /\ hubs[1].slug = "index"
           /\ FromTree(tree, hubs[1].html)
           /\ RelPath(tree[EntryOf(tree, hubs[1].html)], prefix) = <<"index.html">>
           /\ Len(hubs) = 1 + Cardinality(secs)
           /\ \A j \in secs : \E i \in 2..Len(hubs) :
                 /\ hubs[i].html = FileHtml(tree[j])
                 /\ hubs[i].slug = RelPath(tree[j], prefix)[1]
           /\ \A i \in DOMAIN articles :
                 /\ FromTree(tree, articles[i].html)
                 /\ EntryOf(tree, articles[i].html) \in arts
                 /\ articles[i].slug =
                       BaseName(RelPath(tree[EntryOf(tree, articles[i].html)], prefix)[2])
           /\ \A j \in arts :
                 (\E k \in secs : RelPath(tree[k], prefix)[1] = RelPath(tree[j], prefix)[1])
                    => \E i \in DOMAIN articles : articles[i].html = FileHtml(tree[j])
           /\ \A i, k \in DOMAIN articles :
                 i # k => articles[i].html # articles[k].html
           /\ tree = ExampleTree =>
                 /\ Slugs(hubs) = <<"index", "services">>
                 /\ Len(articles) = 1 /\ articles[1].slug = "consulting"
                 /\ articles[1].hubId = hubs[2].id

\* the positions in hs of the imported sections named seg (the home page is hs[1])
SectionsNamed(hs, seg) == {i \in 2..Len(hs) : hs[i].slug = seg}

\* C13: every article Import produces has the hubId of the imported section whose slug
\* is the first segment of the article's path, and the content of an article-shaped
\* entry is fetched only when an imported section has that slug.
C13_ArticleUnderItsSection ==
    /\ \A c \in ImportCalls(pending) :
          c.op = "article" =>
             SectionsNamed(imp.hubs, RelPath(tree[c.i], imp.rootDir)[1]) # {}
    /\ Ended("import", "done") =>
          \A k \in DOMAIN articles :
             \E i \in SectionsNamed(hubs,
                        RelPath(tree[EntryOf(tree, articles[k].html)], githubConfig.path)[1]) :
                articles[k].hubId = hubs[i].id

\* C14: in the result of Import the home page is the first element of hubs, the
\* sections follow it in the order of their entries in the tree, and the articles are in
\* the order of their entries in the tree.
C14_ImportOrder ==
    Ended("import", "done") =>
        /\ hubs # <<>> /\ hubs[1].id = HomeId /\ hubs[1].slug = "index"
        /\ \A i \in 2..Len(hubs) : hubs[i].id # HomeId /\ FromTree(tree, hubs[i].html)
        /\ \A i, k \in 2..Len(hubs) :
              i < k => EntryOf(tree, hubs[i].html) < EntryOf(tree, hubs[k].html)
        /\ \A i \in DOMAIN articles : FromTree(tree, articles[i].html)
        /\ \A i, k \in DOMAIN articles :
              i < k => EntryOf(tree, articles[i].html) < EntryOf(tree, articles[k].html)

\* C14 witness: Import of a tree with two sections and two articles has just committed.
C14_Witness ==
    /\ Ended("import", "done") /\ tree = OrderTree
    /\ Slugs(hubs) = <<"index", "docs", "services">>
    /\ Len(articles) = 2 /\ articles[1].html.path = <<"services", "notes.html.bak.html">>

ArticleSlugs(as) == [k \in DOMAIN as |-> as[k].slug]
\* for each article, the slug of the hub its hubId names
HubSlugOf(hs, as) ==
    [k \in DOMAIN as |-> hs[CHOOSE i \in DOMAIN hs : hs[i].id = as[k].hubId].slug]

\* C15: an Import that completes over the result of an earlier Import of the same tree
\* leaves the same sequence of hub slugs, the same sequence of article slugs and the same
\* article-to-hub-slug association as that earlier run: the second result replaces the
\* first.
C15_ImportIdempotent ==
    [][(ImportAct /\ last'.wf = "import" /\ last'.ev = "done" /\ identity # NoIdentity) =>
         /\ Slugs(hubs') = Slugs(hubs)
         /\ ArticleSlugs(articles') = ArticleSlugs(articles)
         /\ HubSlugOf(hubs', articles') = HubSlugOf(hubs, articles)]_vars

\* C15 witness: a second Import of the example tree has just committed, its section
\* carrying an id other than the one the first run gave it.
C15_Witness ==
    /\ Ended("import", "done") /\ tree = ExampleTree
    /\ Slugs(hubs) = <<"index", "services">> /\ hubs[2].id # 1
    /\ Len(articles) = 1 /\ articles[1].hubId = hubs[2].id

RetryDone == rt.pc \in {"returned", "threw"}
\* the operation fails retryably on its first k invocations and succeeds on the next
FailsThenSucceeds(k) ==
    /\ k < rt.maxRetries
    /\ \A n \in 1..k : isNetworkError(rt.script[n]) \/ isRateLimit(rt.script[n])
    /\ rt.script[k + 1] = "ok"
\* the operation fails retryably whenever it is invoked
AlwaysFails == \A n \in 1..rt.maxRetries : isNetworkError(rt.script[n]) \/ isRateLimit(rt.script[n])
\* the key is configured and the wrapper has not observed a cancellation
Undisturbed == rt.apiKey /\ ~SeesAbort(rt)
ReturnedAfter(n) == rt.pc = "returned" /\ rt.result = "value" /\ rt.calls = n
WaitsAfterFailures(m) == Len(rt.waits) = (IF m = 0 THEN 0 ELSE m - 1)

\* C16 (as claimed): for an operation that fails with a network or rate-limit error
\* exactly k < maxRetries times and then succeeds, a finished call of retryWithBackoff
\* has returned the success value after exactly k+1 invocations.
C16_RetryThenSuccess_Claimed ==
    \A k \in 0..MaxAttempts : (RetryDone /\ FailsThenSucceeds(k)) => ReturnedAfter(k + 1)

\* C16 (amended): the same, for a call made with the API key configured and whose
\* signal, if one was passed, is not aborted while the call runs.
C16_RetryThenSuccess ==
    \A k \in 0..MaxAttempts :
        (RetryDone /\ FailsThenSucceeds(k) /\ Undisturbed) => ReturnedAfter(k + 1)

\* C16 witness: the default budget used up to its last attempt, which succeeds.
C16_Witness ==
    /\ rt.maxRetries = defaultMaxRetries /\ FailsThenSucceeds(defaultMaxRetries - 1)
    /\ ReturnedAfter(defaultMaxRetries) /\ Len(rt.waits) = defaultMaxRetries - 1

\* C17 (as claimed): for an operation that always fails with a retryable error, a
\* finished call has failed after exactly maxRetries invocations, with no wait after the
\* last failure.
C17_RetryExhausted_Claimed ==
    (RetryDone /\ AlwaysFails) =>
        /\ rt.pc = "threw"
        /\ rt.calls = rt.maxRetries
        /\ WaitsAfterFailures(rt.maxRetries)

\* C17 (amended): the same, for a call made with the API key configured and whose
\* signal, if one was passed, is not aborted while the call runs.
C17_RetryExhausted ==
    (RetryDone /\ AlwaysFails /\ Undisturbed) =>
        /\ rt.pc = "threw"
        /\ rt.calls = rt.maxRetries
        /\ WaitsAfterFailures(rt.maxRetries)

\* C17 witness: the default budget exhausted by retryable failures.
C17_Witness ==
    /\ rt.pc = "threw" /\ rt.maxRetries = defaultMaxRetries /\ AlwaysFails
    /\ rt.calls = defaultMaxRetries /\ Len(rt.waits) = defaultMaxRetries - 1

\* C18 (as claimed): when the first attempt fails with an error that is neither network,
\* rate-limit nor overload shaped, a finished call has failed with that error after
\* exactly one invocation and no backoff wait.
C18_NoRetryOnOtherError_Claimed ==
    (RetryDone /\ rt.maxRetries >= 1 /\ rt.script[1] = "other") =>
        /\ rt.pc = "threw" /\ rt.result = "other"
        /\ rt.calls = 1 /\ rt.waits = <<>>

\* C18 (amended): the same, for a call made with the API key configured and whose
\* signal, if one was passed, is not aborted while the call runs.
C18_NoRetryOnOtherError ==
    (RetryDone /\ rt.maxRetries >= 1 /\ rt.script[1] = "other" /\ Undisturbed) =>
        /\ rt.pc = "threw" /\ rt.result = "other"
        /\ rt.calls = 1 /\ rt.waits = <<>>

\* C18 witness: a call with budget left has failed on its first attempt.
C18_Witness ==
    /\ rt.pc = "threw" /\ rt.result = "other" /\ rt.calls = 1
    /\ rt.maxRetries = defaultMaxRetries /\ rt.script[1] = "other"

\* C19: once the caller's cancellation token is set, retryWithBackoff makes no further
\* invocation of the operation, does not go on to retry a failure, and if it fails it
\* fails with the cancellation outcome rather than the operation's error.
C19_RetryHonoursCancellation ==
    [][(rt.apiKey /\ rt.aborted /\ rt.pc # "called") =>
         /\ rt'.calls = rt.calls
         /\ rt'.pc # "wait"
         /\ rt'.pc = "threw" => rt'.result = "abort"]_vars
\* C20: when a workflow is cancelled (handleCancelProcess runs while one is in flight),
\* the cancellation token is cleared and status becomes idle if the project has no
\* identity and ready if it has one.
C20_CancelRestoresStableStatus ==
    [][(CancelProcess /\ InFlight # {}) =>
         /\ abortRef' = NoToken
         /\ status' = IF identity = NoIdentity THEN "idle" ELSE "ready"]_vars
\* the calls of the sequential page loops (Build's section loop, Import's two loops)
LoopCalls(p) ==
    {c \in p : (c.wf = "build" /\ c.op = "section")
                \/ (c.wf = "import" /\ c.op \in {"section", "article"})}

\* a cancel request reached the live invocation of wf and nothing was started since:
\* Import's own token is aborted; Build has no token, its status was reset by the request
CancelRequested(wf) ==
    /\ Running(wf)
    /\ \/ wf = "import" /\ imp.sig \in aborted
       \/ wf = "build" /\ status = CancelStatus

\* C21: in the sequential page loops of Build and Import, once cancellation has been
\* requested no further call of the loop is dispatched.
C21_NoDispatchAfterCancel ==
    [][\A wf \in {"build", "import"} :
          CancelRequested(wf) =>
              {c \in LoopCalls(pending') : c.wf = wf} \subseteq LoopCalls(pending)]_vars
\* handleCancelProcess ran while wf was in flight: in the step just taken, or earlier on
\* the token the live invocation of wf holds
Cancelled(wf) ==
    /\ Running(wf)
    /\ \/ last = Label("user", "cancel", "")
       \/ wf = "import" /\ imp.sig \in aborted
       \/ wf = "publish" /\ pub.sig \in aborted

StepOf(wf) ==
    CASE wf = "build" -> BuildAct
      [] wf = "import" -> ImportAct
      [] wf = "tune" -> TuneAct
      [] wf = "publish" -> PublishAct

\* C22: after a cancel request the cancelled workflow never again sets status to a busy
\* value and never commits identity, hubs or articles, even when its outstanding call
\* returns normally.
C22_CancelIsEffective ==
    [][\A wf \in Workflows :
          (Cancelled(wf) /\ StepOf(wf)) =>
              /\ status' \in {"idle", "ready"}
              /\ UNCHANGED <<identity, hubs, articles>>]_vars
\* C23: a workflow invocation whose calls all return or throw leaves status at idle or
\* ready whatever its outcome: in the state its handler ends in, with no other workflow
\* in flight to write status later, status is idle or ready.
C23_EndsAtStableStatus ==
    (last.wf \in Workflows /\ InFlight = {}) => status \in {"idle", "ready"}
\* the tokens the live invocations were started with
LiveTokens ==
    ({imp.sig : x \in {y \in {1} : Running("import")}}
     \cup {pub.sig : x \in {y \in {1} : Running("publish")}}) \ {NoToken}

\* C24: every workflow start that puts a workflow in flight installs a fresh cancellation
\* token, and a cancel request made while a workflow is in flight acts on the token of a
\* workflow in flight, never on an earlier workflow's token or on no token.
C24_FreshTokenPerWorkflow ==
    [][/\ (StartAct /\ InFlight' # InFlight) =>
              abortRef' \notin ({NoToken, abortRef} \cup aborted)
       /\ (CancelProcess /\ InFlight # {}) => abortRef \in LiveTokens]_vars
TuneCalls == {c \in pending : c.wf = "tune"}
\* the positions of the home page (the hub with slug "index") in the project Tune started on
HomePages(s) == {j \in DOMAIN s.hubs : s.hubs[j].slug = "index"}

\* C25: the tuning call of a Tune invocation carries no exemplar when the target is the
\* home page, and carries the home page's markup as it was when the invocation started
\* when the target is a section or an article.
C25_TuneExemplar ==
    \A c \in TuneCalls :
        IF \E j \in HomePages(tun.cap) : tun.cap.hubs[j].id = c.i
        THEN c.ref = NoHtml
        ELSE \A j \in HomePages(tun.cap) : c.ref = tun.cap.hubs[j].html

\* C25 witness: a tuning call for an article is in flight with the home page's markup
\* as exemplar.
C25_Witness ==
    \E c \in TuneCalls :
        /\ \E k \in DOMAIN tun.cap.articles : tun.cap.articles[k].id = c.i
        /\ c.ref # NoHtml
        /\ HomePages(tun.cap) # {}
\* the pages of a project in the order "every HubPage, then every Article"
PageIds(s) ==
    [j \in DOMAIN s.hubs |-> s.hubs[j].id] \o [j \in DOMAIN s.articles |-> s.articles[j].id]

C27_TuneFailure ==
    [][(TuneCalls # {} /\ TuneCalls' = {} /\ ~TuneOk) =>
          /\ last' = Label("tune", "fail", "tune")
          /\ status' = "ready"
          /\ hubs' = hubs /\ articles' = articles]_vars

\* C27 witness: a Tune invocation on a built or imported site has just failed in its call.
C27_Witness ==
    /\ last = Label("tune", "fail", "tune")
    /\ status = "ready"
    /\ hubs # <<>> /\ \A j \in DOMAIN hubs : hubs[j].html.kind \in {"page", "file"}
PublishCalls == {c \in pending : c.wf = "publish"}
PublishSteps == <<"createRepository", "generateReadme", "publishToGithub", "enablePages">>
\* the status the handler writes before it dispatches step k ("" where it writes none)
StepStatus == <<"creating_repo", "pushing_files", "", "enabling_pages">>

\* C28: a Publish invocation dispatches ensure-repository, generate-README, bulk-push and
\* enable-hosting in this order, one at a time, each only when the one before it has
\* returned successfully, writing creating_repo, pushing_files and enabling_pages on the
\* way and ready at the end; every invocation, one after a failed one included, starts
\* at ensure-repository.
C28_PublishStepOrder ==
    [][PublishCalls' # PublishCalls =>
          \/ /\ StartPublish /\ PublishCalls = {}
             /\ \E d \in pending' : PublishCalls' = {d} /\ d.op = PublishSteps[1]
             /\ status' = StepStatus[1]
          \/ \E c \in pending, d \in pending', k \in 1..3 :
                /\ PublishCalls = {c} /\ PublishCalls' = {d}
                /\ c.op = PublishSteps[k] /\ d.op = PublishSteps[k + 1]
                /\ last' = Quiet
                /\ StepStatus[k + 1] # "" => status' = StepStatus[k + 1]
          \/ /\ PublishCalls' = {} /\ last'.wf = "publish"
             /\ last'.ev = "done" =>
                   /\ \E c \in pending : PublishCalls = {c} /\ c.op = PublishSteps[4]
                   /\ status' = "ready"]_vars

\* C28 witness: the second Publish invocation on the loaded site, started after the first
\* one ended, has gone through its four steps.
C28_Witness ==
    /\ last = Label("publish", "done", "enablePages")
    /\ runs = 2
    /\ status = "ready"
\* C29: loading yields the default empty project (no hubs, no articles, status idle) both
\* when nothing is stored under the storage key and when the stored document does not
\* parse; the component mounts, no error propagates.
C29_LoadFallsBackToDefault ==
    [][(Mount /\ app.saved \in {NoDocument, Unparsable}) =>
          /\ app'.pc = "mounted"
          /\ status' = "idle" /\ identity' = NoIdentity
          /\ hubs' = <<>> /\ articles' = <<>>]_vars
\* the handler awaiting call c will, when c returns, dispatch another call or write
\* ProjectState: every handler does, except Import and Publish waiting, with their token
\* aborted, on a call whose return is followed by "if (signal.aborted) return"
WillAct(c) ==
    /\ ~(c.wf = "import" /\ imp.sig \in aborted
          /\ c.op \in {"indexContent", "analyze", "section", "article"})
    /\ ~(c.wf = "publish" /\ pub.sig \in aborted /\ c.op = "generateReadme")

\* C30: whenever status is idle or ready no workflow is in progress: no handler is
\* running that will still dispatch an external call or write ProjectState.
C30_StableMeansNothingRunning ==
    status \in {"idle", "ready"} => \A c \in pending : ~WillAct(c)
\* the transitions of the state machine over statuses
ListedTransitions ==
    {<<"idle", "importing">>, <<"importing", "ready">>,
     <<"idle", "building_identity">>, <<"building_identity", "generating_strategy">>,
     <<"generating_strategy", "generating_hubs">>, <<"generating_hubs", "ready">>,
     <<"ready", "tuning_design">>, <<"tuning_design", "ready">>,
     <<"ready", "creating_repo">>, <<"creating_repo", "pushing_files">>,
     <<"pushing_files", "enabling_pages">>, <<"enabling_pages", "ready">>}

\* a step of a workflow handler that ends neither in its catch block nor at an abort check
SuccessStep ==
    /\ BuildAct \/ ImportAct \/ TuneAct \/ PublishAct
    /\ last'.ev \notin {"fail", "abort", "aborterror"}

\* C31: every status change a workflow performs on its success path is one of the listed
\* transitions (Import: idle, importing, ready; Build: idle, building_identity,
\* generating_strategy, generating_hubs, ready; Tune: ready, tuning_design, ready;
\* Publish: ready, creating_repo, pushing_files, enabling_pages, ready); in particular
\* Tune and Publish never start from idle.
C31_ListedTransitionsOnly ==
    [][(SuccessStep /\ status' # status) => <<status, status'>> \in ListedTransitions]_vars
MatchedIndexPath == tree[FindIndexNode(tree)].path

\* C33: Import derives the root directory prefix as the empty string when the matched
\* index path has no slash and as its first segment otherwise; on success it commits a
\* githubConfig whose path is that prefix, whose branch is the repository's default
\* branch (main when the metadata names none) and whose token and repo are the inputs
\* with surrounding blanks removed.
C33_ImportConfig ==
    Ended("import", "done") =>
        /\ githubConfig.path =
              (IF Len(MatchedIndexPath) = 1 THEN "" ELSE MatchedIndexPath[1])
        /\ githubConfig.branch = (IF repoBranch = "" THEN "main" ELSE repoBranch)
        /\ githubConfig.token = "ghp"
        /\ githubConfig.repo = "owner/repo"

\* C33 witness: an Import of a site kept under docs/ in a repository whose default
\* branch is dev has succeeded.
C33_Witness ==
    /\ Ended("import", "done")
    /\ githubConfig.path = "docs" /\ githubConfig.branch = "dev"
    /\ Len(hubs) >= 2
\* the root prefix of the index entry Import matched ("" when it is at the tree root)
MatchedPrefix == IF Len(MatchedIndexPath) = 1 THEN "" ELSE MatchedIndexPath[1]
UnderPrefix(path) == Len(path) >= 2 /\ path[1] = MatchedPrefix

\* C34: with a non-empty root prefix, only entries under <prefix>/ cause a content fetch
\* or contribute a hub or an article, and they are classified by their path with the
\* prefix stripped; an entry whose first segment merely begins with the prefix (docs2/
\* for docs) is ignored.
C34_OnlyUnderPrefix ==
    (HasIndexCandidate(tree) /\ MatchedPrefix # "") =>
        /\ \A c \in ImportCalls(pending) :
              c.op \in {"section", "article"} => UnderPrefix(tree[c.i].path)
        /\ Ended("import", "done") =>
              /\ \A i \in 2..Len(hubs) :
                    /\ FromTree(tree, hubs[i].html)
                    /\ hubs[i].html.path = <<MatchedPrefix, hubs[i].slug, "index.html">>
              /\ \A k \in DOMAIN articles :
                    /\ FromTree(tree, articles[k].html)
                    /\ UnderPrefix(articles[k].html.path)
                    /\ Len(articles[k].html.path) = 3
                    /\ articles[k].html.path[3] # "index.html"

\* C34 witness: the site under docs/ has been imported from a repository that holds a
\* docs2/ directory and sections outside docs/: one section, no article.
C34_Witness ==
    /\ Ended("import", "done") /\ tree = PrefixTree
    /\ Len(hubs) = 2 /\ hubs[2].slug = "services" /\ articles = <<>>
\* the tree paths the imported sections and articles were read from
SectionPaths == {hubs[i].html.path : i \in 2..Len(hubs)}
ArticlePaths == {articles[k].html.path : k \in DOMAIN articles}

\* C35: no entry is imported under two classifications: the entry whose relative path is
\* index.html yields only the home page, no entry yields both a section and an article,
\* and a tree with no <segment>/index.html entry yields the home page alone and no
\* articles.
C35_OneClassificationPerEntry ==
    Ended("import", "done") =>
        /\ \A j \in DOMAIN tree :
              RelPath(tree[j], MatchedPrefix) = <<"index.html">> =>
                  tree[j].path \notin SectionPaths \cup ArticlePaths
        /\ SectionPaths \cap ArticlePaths = {}
        /\ SectionEntries(tree, MatchedPrefix) = {} => (Len(hubs) = 1 /\ articles = <<>>)
\* xs and ys are the same list but for the markup of the page with this id
SameButMarkupOf(xs, ys, id) ==
    /\ Len(xs) = Len(ys)
    /\ \A j \in DOMAIN xs :
          IF xs[j].id = id THEN [ys[j] EXCEPT !.html = xs[j].html] = xs[j]
          ELSE ys[j] = xs[j]

\* C36: the commit of a successful Tune changes only the markup of its target page,
\* relative to hubs and articles as they are at the moment of the commit: what another
\* operation committed to any other page since Tune started is not overwritten.
C36_TuneKeepsOtherChanges ==
    [][TuneOk =>
          /\ SameButMarkupOf(hubs, hubs', tun.target)
          /\ SameButMarkupOf(articles, articles', tun.target)]_vars

\* the step ends add-project without a commit: a generation call failed, or the
\* service named a hub id that is not in hubs (catch and finally, lines 421-427)
AddEndsInFailure == (AddFail \/ AddShowcaseOk) /\ last'.wf = "add" /\ last'.ev = "fail"

\* C37: a successful add-project appends exactly one article, whose hubId is the id of
\* a hub in hubs, and changes the markup of that hub only; an add-project that ends in
\* failure leaves hubs, articles and status unchanged.
C37_AddProjectEffect ==
    [][/\ AddHubOk =>
             /\ Len(articles') = Len(articles) + 1
             /\ SubSeq(articles', 1, Len(articles)) = articles
             /\ articles'[Len(articles')].hubId \in HubIds(hubs')
             /\ articles'[Len(articles')].hubId = addp.target
             /\ SameButMarkupOf(hubs, hubs', addp.target)
       /\ AddEndsInFailure => UNCHANGED <<hubs, articles, status>>]_vars

\* C38: the ProjectState the component starts from at load has status idle or ready,
\* whatever status the stored document was written with: no workflow is running at
\* that moment, so a busy status is never restored.
C38_RestoredStatusIsStable ==
    [][Mount => /\ pending' = {}
                /\ status' \in {"idle", "ready"}]_vars

\* a step of handleCreateAndPublish
PublishStep ==
    \/ StartPublish \/ PublishCreateRepoOk \/ PublishReadmeOk \/ PublishPushOk
    \/ PublishEnablePagesOk \/ PublishFail \/ PublishAbortError

\* C39: no step of Publish, whether it goes on, completes, fails or ends by cancellation,
\* changes identity, hubs, articles or githubConfig; a step that fails with an error
\* that is no cancellation writes status ready and ends the invocation, and no Publish
\* call is dispatched afterwards but the first one of a new invocation.
C39_PublishFrame ==
    /\ [][PublishStep => UNCHANGED <<identity, hubs, articles, githubConfig>>]_vars
    /\ [][PublishFail => /\ status' = "ready"
                         /\ PublishCalls' = {}
                         /\ pub' = PublishIdle]_vars
    /\ [][(PublishCalls = {} /\ PublishCalls' # {}) =>
             /\ StartPublish
             /\ \A d \in PublishCalls' : d.op = PublishSteps[1]]_vars

\* Publish failed at the bulk push on a site with pages: status is ready, no Publish
\* call is outstanding and the site is still there
C39_Witness ==
    /\ last = Label("publish", "fail", "publishToGithub")
    /\ status = "ready"
    /\ PublishCalls = {}
    /\ Len(hubs) > 1 /\ identity # NoIdentity

====
